---------------------------- MODULE Spec2Model ----------------------------
(***************************************************************************)
(* Model of BulletproofOctoMobilePlaywright (src/src/index.ts): the        *)
(* session supervisor that launches a remote mobile browser session,       *)
(* drifts its sensors, watches its health and restarts it.                 *)
(*                                                                         *)
(* Node runs one callback at a time and switches only at an await.  Every  *)
(* action below is one resumption of one asynchronous call chain: it       *)
(* starts where a promise settles (or a timer, signal or error event is    *)
(* delivered) and runs the code up to the next await.  `tasks` holds one   *)
(* record per call chain in flight; `pc` names the await it is suspended   *)
(* at, `obj` the session object the pending call was issued on.            *)
(***************************************************************************)
EXTENDS Integers, Sequences, FiniteSets, TLC

(***************************************************************************)
(* Bounds of the model.                                                    *)
(***************************************************************************)
\* callbacks (timer ticks, signal and error handlers) in flight at once
MaxTasks == 2
\* browser connections that can exist at once (open or still referenced)
MaxSessions == 2
\* interval timers of one kind that can be scheduled at once
MaxTimers == 2
\* callbacks that can be between their first and their last await at once
MaxActive == 1
\* sensor timer callbacks followed
MaxTicks == 2
\* values of Math.random() told apart: k / RandomSteps for k in 0 .. RandomSteps - 1
RandomSteps == 4

(***************************************************************************)
(* Program constants.                                                      *)
(***************************************************************************)
MAX_RESTARTS == 7
MAX_ATTEMPTS == 6
BASE_DELAY == 1200
MAX_DELAY == 30000
NOISE_MULTIPLIER == 70
\* 0.22, in hundredths
GEO_DRIFT_PROBABILITY == 22
\* 0.003 degree, in millionths of a degree
GEO_DRIFT_AMOUNT == 3000
\* 1.3, in tenths
LON_DRIFT_MULTIPLIER == 13
\* IPHONE_15_PRO.movementNoise: 0.18, in hundredths
MovementNoise == 18

NULL == 0
NoExit == -1
MainTask == 0
TaskIds == 0..MaxTasks
Callbacks == 1..MaxTasks
SessionIds == 1..MaxSessions

\* the two ways the start request fails (index.ts 113, 118)
StartErrors == {"OctoApiStatus", "NoWsEndpoint"}

VARIABLES
    isRunning,          \* this.isRunning
    browser,            \* this.browser: NULL or the connection it refers to
    context,            \* this.context
    page,               \* this.page
    cdp,                \* this.cdp
    sensorInterval,     \* this.sensorInterval: NULL or 1 (a timer handle)
    healthInterval,     \* this.healthInterval
    restartCount,       \* this.restartCount
    sensorTimers,       \* number of sensor interval timers scheduled in the event loop
    healthTimers,       \* number of health interval timers scheduled
    browsers,           \* remote side: connections that are open
    pages,              \* remote side: pages that are open
    attached,           \* remote side: sessions whose control channel is attached
    pushedGeo,          \* remote side: the geolocation last set by setGeolocation
    exitCode,           \* NoExit, or the code process.exit was called with
    tasks,              \* the asynchronous call chains in flight
    currentOrientation, \* this.currentOrientation
    currentGeo,         \* this.currentGeo
    ticks,              \* sensor timer callbacks run so far
    snapshot            \* the supervisor's fields as the first of two stopAll calls left them

vars == <<isRunning, browser, context, page, cdp, sensorInterval, healthInterval,
          restartCount, sensorTimers, healthTimers, browsers, pages, attached,
          pushedGeo, exitCode, tasks, currentOrientation, currentGeo, ticks, snapshot>>

handleVars == <<browser, context, page, cdp>>
timerVars == <<sensorInterval, healthInterval, sensorTimers, healthTimers>>
remoteVars == <<browsers, pages, attached, pushedGeo>>
sensorVars == <<currentOrientation, currentGeo, ticks>>

(***************************************************************************)
(* Device profile and sensor state, in integers: angles in hundredths of a *)
(* degree, positions in millionths of a degree.  main() passes its own     *)
(* geo; `{...IPHONE_15_PRO, ...config}` keeps the default orientation.     *)
(***************************************************************************)
ConfigGeo == [lat |-> 37774900, lon |-> -122419400]
NoGeo == [lat |-> 0, lon |-> 0]

\* IPHONE_15_PRO.orientation (26-31)
AlphaRange == <<0, 36000>>
BetaRange == <<-6000, 6000>>
GammaRange == <<-4500, 4500>>
\* the constructor's currentOrientation (53)
StartOrientation == [alpha |-> 3500, beta |-> 2500, gamma |-> 1000]

Draws == 0..(RandomSteps - 1)

(***************************************************************************)
(* Task records.                                                           *)
(***************************************************************************)
NoError == [kind |-> "none", cause |-> "none"]

Idle == [kind |-> "none", pc |-> "idle", obj |-> NULL, final |-> FALSE,
         attempt |-> 0, calls |-> 0, warns |-> 0, waits |-> 0, delays |-> << >>,
         lastError |-> "none", error |-> NoError, issued |-> {},
         draw |-> -1, moved |-> FALSE, sent |-> NoGeo, call |-> 0,
         failed |-> {}, uuid |-> "none", answer |-> "none"]

\* a call chain that returned.  A callback of restart() or of a signal leaves
\* nothing behind; what main(), a sensor tick or the two-call sequence did stays
\* readable in a slot that is free again.
Finished(rec) ==
    IF rec.kind \in {"main", "sensor", "twice"} THEN [rec EXCEPT !.pc = "done", !.obj = NULL]
    ELSE Idle

NoSnapshot == [taken |-> FALSE, fields |-> << >>, issued |-> {}]

\* the locals of retry are dead once startOctoProfile has returned and the next
\* call of launch has settled
RetryDone(rec) ==
    [rec EXCEPT !.attempt = 0, !.calls = 0, !.warns = 0, !.waits = 0, !.delays = << >>,
                !.lastError = "none"]

\* a call chain inside runContinuousAutomation: of its locals only the caller matters
Parked(rec) == [Idle EXCEPT !.kind = rec.kind, !.pc = "nav"]

Free(t) == tasks[t].kind = "none" \/ tasks[t].pc = "done"
\* a callback that is past its first and before its last await, the navigation
\* loop aside
Active(t) == tasks[t].kind # "none" /\ tasks[t].pc \notin {"nav", "done", "idle"}
HasFreeSlot ==
    /\ \E t \in Callbacks : Free(t)
    /\ Cardinality({t \in Callbacks : Active(t)}) < MaxActive
FreeSlot == CHOOSE t \in Callbacks : Free(t) /\ \A u \in Callbacks : Free(u) => t <= u

Alive == exitCode = NoExit
At(t, kinds, pc) == Alive /\ tasks[t].kind \in kinds /\ tasks[t].pc = pc

Restarters == {"health", "hook"}
\* stopAll's argument: the signal handlers call stopAll() (160), restart calls
\* stopAll(true) (396, 404)
Silent(rec) == rec.kind # "signal"
Launchers == {"main", "health", "hook"}

(***************************************************************************)
(* retry (index.ts 64-85)                                                  *)
(***************************************************************************)
RECURSIVE Pow2(_)
Pow2(n) == IF n <= 0 THEN 1 ELSE 2 * Pow2(n - 1)

Min(a, b) == IF a <= b THEN a ELSE b
Max(a, b) == IF a >= b THEN a ELSE b

\* line 78: Math.min(baseDelay * Math.pow(2, attempt - 1), 30_000)
BackoffDelay_Linear(attempt, baseDelay) == Min(baseDelay * attempt, MAX_DELAY)
BackoffDelay(attempt, baseDelay) == Min(baseDelay * Pow2(attempt - 1), MAX_DELAY)

\* line 74: if (attempt === maxAttempts) throw
LastAttempt_Off(attempt) == attempt > MAX_ATTEMPTS
LastAttempt(attempt) == attempt = MAX_ATTEMPTS

\* line 75: new Error(`Failed after ${maxAttempts} attempts: ${lastError.message}`)
FailedAfter(cause) == [kind |-> "FailedAfterAttempts", cause |-> cause]
StepFailed == [kind |-> "StepFailed", cause |-> "none"]

(***************************************************************************)
(* stopAll (index.ts 419-495): the step it suspends at next.  Stage n is   *)
(* the n-th guarded await of stopAll; b, c, p, d are this.browser,         *)
(* this.context, this.page, this.cdp as they are when the guard is read.   *)
(***************************************************************************)
Stage(n, b, c, p, d) ==
    IF n <= 1 /\ c # NULL THEN "sa_trace"
    ELSE IF n <= 2 /\ d # NULL THEN "sa_detach"
    ELSE IF n <= 3 /\ p # NULL /\ p \in pages THEN "sa_page"
    ELSE IF n <= 4 /\ c # NULL THEN "sa_ctx"
    ELSE IF n <= 5 /\ b # NULL THEN "sa_browser"
    ELSE "sa_profile"

Receiver(stage, b, c, p, d) ==
    CASE stage = "sa_trace" -> c
      [] stage = "sa_detach" -> d
      [] stage = "sa_page" -> p
      [] stage = "sa_ctx" -> c
      [] stage = "sa_browser" -> b
      [] OTHER -> NULL

\* the task suspended at the next stage from n on
Teardown(rec, n, b, c, p, d) ==
    LET st == Stage(n, b, c, p, d)
    IN [rec EXCEPT !.pc = st, !.obj = Receiver(st, b, c, p, d),
                   !.issued = rec.issued \cup {st}]

\* lines 419-436: the synchronous head of stopAll, up to its first await
StopAllEnter(t, rec) ==
    /\ isRunning' = FALSE
    /\ sensorInterval' = NULL
    /\ sensorTimers' = IF sensorInterval # NULL THEN sensorTimers - 1 ELSE sensorTimers
    /\ healthInterval' = NULL
    /\ healthTimers' = IF healthInterval # NULL THEN healthTimers - 1 ELSE healthTimers
    /\ tasks' = [tasks EXCEPT ![t] =
                   Teardown([rec EXCEPT !.issued = {}], 1, browser, context, page, cdp)]

(***************************************************************************)
(* restart (index.ts 393-414)                                              *)
(***************************************************************************)
\* line 394
BudgetExhausted_Off(count) == count > MAX_RESTARTS
BudgetExhausted(count) == count >= MAX_RESTARTS

\* line 400: this.restartCount++
NextCount_Stuck(count) == count
NextCount(count) == count + 1

\* lines 394-404: from the call of restart() to the first await inside stopAll
RestartEnter(t, rec) ==
    IF BudgetExhausted(restartCount)
    THEN /\ restartCount' = restartCount
         /\ StopAllEnter(t, [rec EXCEPT !.final = TRUE])
    ELSE /\ restartCount' = NextCount(restartCount)
         /\ StopAllEnter(t, [rec EXCEPT !.final = FALSE])

(***************************************************************************)
(* launch (index.ts 180-235)                                               *)
(***************************************************************************)
\* lines 181-182, 64-69, 94: the running flag is set and the start request is sent
LaunchEnter(rec) ==
    [rec EXCEPT !.pc = "start", !.obj = NULL, !.attempt = 1, !.calls = 1, !.warns = 0,
                !.waits = 0, !.delays = << >>, !.lastError = "none", !.error = NoError]

\* launch() rejected with err: main's catch exits (527-530); restart's catch
\* logs and waits 5 s (409-411)
LaunchFails_Continues(t, rec, err) ==
    /\ exitCode' = exitCode
    /\ tasks' = [tasks EXCEPT ![t] = Parked(rec)]
LaunchFails(t, rec, err) ==
    IF rec.kind = "main"
    THEN /\ exitCode' = 1
         /\ tasks' = [tasks EXCEPT ![t] = Finished([rec EXCEPT !.error = err])]
    ELSE /\ exitCode' = exitCode
         /\ tasks' = [tasks EXCEPT ![t] = [rec EXCEPT !.pc = "retryDelay", !.obj = NULL,
                                                      !.error = err]]

\* launch() returned: main() resolves; restart resets the counter (407-408)
LaunchReturns(t, rec) ==
    /\ restartCount' = IF rec.kind = "main" THEN restartCount ELSE 0
    /\ tasks' = [tasks EXCEPT ![t] = Finished(rec)]

\* a connection no handle, pending call or open browser refers to
Unused(s) ==
    /\ s \notin browsers
    /\ s \notin {browser, context, page, cdp}
    /\ \A t \in TaskIds : tasks[t].obj # s
CanConnect == \E s \in SessionIds : Unused(s)
FreshSession == CHOOSE s \in SessionIds : Unused(s) /\ \A u \in SessionIds : Unused(u) => s <= u

Init ==
    /\ isRunning = FALSE
    /\ browser = NULL /\ context = NULL /\ page = NULL /\ cdp = NULL
    /\ sensorInterval = NULL /\ healthInterval = NULL
    /\ restartCount = 0
    /\ sensorTimers = 0 /\ healthTimers = 0
    /\ browsers = {} /\ pages = {} /\ attached = {}
    /\ pushedGeo = NoGeo
    /\ exitCode = NoExit
    /\ tasks = [t \in TaskIds |-> IF t = MainTask
                                  THEN [Idle EXCEPT !.kind = "main", !.pc = "init"]
                                  ELSE Idle]
    /\ currentOrientation = StartOrientation
    /\ currentGeo = ConfigGeo
    /\ ticks = 0
    /\ snapshot = NoSnapshot

(***************************************************************************)
(* main, before the supervisor exists (index.ts 499-522)                   *)
(***************************************************************************)
\* process.env.OCTO_PROFILE_UUID: not set, set to the empty string, or set
EnvUuids == {"undefined", "", "profile-uuid"}

\* line 502: !uuid
Missing_Never(uuid) == FALSE
Missing(uuid) == uuid \in {"undefined", ""}

\* the fields before the constructor has run
NoOrientation == [alpha |-> 0, beta |-> 0, gamma |-> 0]

\* the constructor has run, so setupProcessHandlers (54) has registered the
\* signal and error handlers, and main() has reached its first await (524, 182):
\* an event is delivered only once the running callback has suspended
Registered == tasks[MainTask].pc \notin {"entry", "init"}

InitStart ==
    /\ isRunning = FALSE
    /\ browser = NULL /\ context = NULL /\ page = NULL /\ cdp = NULL
    /\ sensorInterval = NULL /\ healthInterval = NULL
    /\ restartCount = 0
    /\ sensorTimers = 0 /\ healthTimers = 0
    /\ browsers = {} /\ pages = {} /\ attached = {}
    /\ pushedGeo = NoGeo
    /\ exitCode = NoExit
    /\ tasks = [t \in TaskIds |-> IF t = MainTask
                                  THEN [Idle EXCEPT !.kind = "main", !.pc = "entry"]
                                  ELSE Idle]
    /\ currentOrientation = NoOrientation
    /\ currentGeo = NoGeo
    /\ ticks = 0
    /\ snapshot = NoSnapshot

\* 500-522, 49-54: main reads the profile identifier; without one it prints the
\* guidance and exits with 1, otherwise it constructs the supervisor
MainStarts ==
    /\ At(MainTask, {"main"}, "entry")
    /\ \E uuid \in EnvUuids :
         LET rec == [tasks[MainTask] EXCEPT !.uuid = uuid] IN
         IF Missing(uuid)
         THEN /\ exitCode' = 1
              /\ tasks' = [tasks EXCEPT ![MainTask] = Finished(rec)]
              /\ UNCHANGED <<currentOrientation, currentGeo>>
         ELSE /\ exitCode' = exitCode
              /\ tasks' = [tasks EXCEPT ![MainTask] = [rec EXCEPT !.pc = "init"]]
              /\ currentOrientation' = StartOrientation
              /\ currentGeo' = ConfigGeo
    /\ UNCHANGED <<isRunning, handleVars, timerVars, remoteVars, restartCount, ticks, snapshot>>

\* main (524): await bot.launch()
MainLaunch ==
    /\ At(MainTask, {"main"}, "init")
    /\ isRunning' = TRUE
    /\ tasks' = [tasks EXCEPT ![MainTask] = LaunchEnter(tasks[MainTask])]
    /\ UNCHANGED <<handleVars, timerVars, remoteVars, restartCount, exitCode>>
    /\ UNCHANGED <<sensorVars, snapshot>>

\* retry 68-70, 94-125: the start request settles with a usable endpoint
StartSettles(t) ==
    /\ At(t, Launchers, "start")
    /\ tasks' = [tasks EXCEPT ![t] = [tasks[t] EXCEPT !.pc = "connect"]]
    /\ UNCHANGED <<isRunning, handleVars, timerVars, remoteVars, restartCount, exitCode>>
    /\ UNCHANGED <<sensorVars, snapshot>>

\* retry 71-80, 113, 118: the start request fails; the last attempt rethrows, any
\* other one warns and starts its backoff wait
StartFails(t) ==
    /\ At(t, Launchers, "start")
    /\ \E e \in StartErrors :
         LET rec == tasks[t]
             failed == [rec EXCEPT !.lastError = e, !.warns = rec.warns + 1] IN
         IF LastAttempt(rec.attempt)
         THEN LaunchFails(t, failed, FailedAfter(e))
         ELSE /\ tasks' = [tasks EXCEPT ![t] =
                     [failed EXCEPT !.pc = "backoff", !.waits = rec.waits + 1,
                          !.delays = Append(rec.delays, BackoffDelay(rec.attempt, BASE_DELAY))]]
              /\ UNCHANGED exitCode
    /\ UNCHANGED <<isRunning, handleVars, timerVars, remoteVars, restartCount>>
    /\ UNCHANGED <<sensorVars, snapshot>>

\* retry 80, 67-69: the backoff timer fires, the next attempt is sent
BackoffElapses(t) ==
    /\ At(t, Launchers, "backoff")
    /\ tasks' = [tasks EXCEPT ![t] = [tasks[t] EXCEPT !.pc = "start",
                                         !.attempt = tasks[t].attempt + 1,
                                         !.calls = tasks[t].calls + 1]]
    /\ UNCHANGED <<isRunning, handleVars, timerVars, remoteVars, restartCount, exitCode>>
    /\ UNCHANGED <<sensorVars, snapshot>>

\* 185-190: connectOverCDP settles; browser, context and page are taken from it
ConnectSettles(t) ==
    /\ At(t, Launchers, "connect")
    /\ LET rec == tasks[t] IN
       \/ /\ CanConnect
          /\ LET s == FreshSession IN
             /\ browsers' = browsers \cup {s}
             /\ pages' = pages \cup {s}
             /\ browser' = s /\ context' = s /\ page' = s
             /\ tasks' = [tasks EXCEPT ![t] = [RetryDone(rec) EXCEPT !.pc = "geo", !.obj = s]]
          /\ UNCHANGED <<cdp, attached, pushedGeo, exitCode>>
       \/ /\ LaunchFails(t, RetryDone(rec), StepFailed)
          /\ UNCHANGED <<handleVars, remoteVars>>
    /\ UNCHANGED <<isRunning, timerVars, restartCount>>
    /\ UNCHANGED <<sensorVars, snapshot>>

\* 190-198: grantPermissions and setGeolocation settle; setViewportSize is called
GeoSettles(t) ==
    /\ At(t, Launchers, "geo")
    /\ LET rec == tasks[t] IN
       \/ /\ rec.obj \in browsers /\ context # NULL /\ context \in browsers /\ page # NULL
          /\ pushedGeo' = ConfigGeo
          /\ tasks' = [tasks EXCEPT ![t] = [rec EXCEPT !.pc = "cdp", !.obj = page]]
          /\ UNCHANGED exitCode
       \/ /\ LaunchFails(t, rec, StepFailed)
          /\ UNCHANGED pushedGeo
    /\ UNCHANGED <<isRunning, handleVars, timerVars, browsers, pages, attached, restartCount>>
    /\ UNCHANGED <<sensorVars, snapshot>>

\* 198-207: viewport, header and newCDPSession settle; the emulation commands are sent
CdpSettles(t) ==
    /\ At(t, Launchers, "cdp")
    /\ LET rec == tasks[t] IN
       \/ /\ rec.obj \in pages /\ page # NULL /\ page \in pages /\ context # NULL
          /\ cdp' = page
          /\ attached' = attached \cup {page}
          /\ tasks' = [tasks EXCEPT ![t] = [rec EXCEPT !.pc = "trace", !.obj = page]]
          /\ UNCHANGED exitCode
       \/ /\ LaunchFails(t, rec, StepFailed)
          /\ UNCHANGED <<cdp, attached>>
    /\ UNCHANGED <<isRunning, browser, context, page, timerVars, browsers, pages, pushedGeo,
                   restartCount>>
    /\ UNCHANGED <<sensorVars, snapshot>>

\* 207-229, 240-249: the emulation commands and tracing.start settle;
\* setupSensorOverrides sends the orientation
TraceSettles(t) ==
    /\ At(t, Launchers, "trace")
    /\ LET rec == tasks[t] IN
       \/ /\ rec.obj \in attached /\ cdp # NULL /\ cdp \in attached
          /\ context # NULL /\ context \in browsers
          /\ tasks' = [tasks EXCEPT ![t] = [rec EXCEPT !.pc = "orient", !.obj = cdp]]
          /\ UNCHANGED exitCode
       \/ LaunchFails(t, rec, StepFailed)
    /\ UNCHANGED <<isRunning, handleVars, timerVars, remoteVars, restartCount>>
    /\ UNCHANGED <<sensorVars, snapshot>>

\* 229-234, 271-274, 326-329, 370-375: the orientation override settles; both timers
\* are created and the navigation loop is entered
OrientSettles(t) ==
    /\ At(t, Launchers, "orient")
    /\ LET rec == tasks[t] IN
       \/ /\ rec.obj \in attached
          /\ sensorTimers < MaxTimers /\ healthTimers < MaxTimers
          /\ sensorInterval' = 1 /\ sensorTimers' = sensorTimers + 1
          /\ healthInterval' = 1 /\ healthTimers' = healthTimers + 1
          /\ IF isRunning
             THEN /\ tasks' = [tasks EXCEPT ![t] = Parked(rec)]
                  /\ UNCHANGED restartCount
             ELSE LaunchReturns(t, rec)
          /\ UNCHANGED exitCode
       \/ /\ LaunchFails(t, rec, StepFailed)
          /\ UNCHANGED <<timerVars, restartCount>>
    /\ UNCHANGED <<isRunning, handleVars, remoteVars>>
    /\ UNCHANGED <<sensorVars, snapshot>>

\* 370-387: one iteration's awaits (goto, then the 25-80 s or the 12 s sleep) are
\* over and the loop condition is read again
NavWakes(t) ==
    /\ At(t, Launchers, "nav")
    /\ IF isRunning
       THEN UNCHANGED <<tasks, restartCount>>
       ELSE LaunchReturns(t, tasks[t])
    /\ UNCHANGED <<isRunning, handleVars, timerVars, remoteVars, exitCode>>
    /\ UNCHANGED <<sensorVars, snapshot>>

\* 455, 465, 475, 485: the handle is nulled once its close call has settled
Closed_Kept(h) == h
Closed(h) == NULL

(***************************************************************************)
(* stopAll, one action per await (index.ts 437-495).  A step that throws   *)
(* is swallowed by its try/catch and leaves the same state as one that     *)
(* succeeds: the object is gone either way and the handle is nulled.       *)
(***************************************************************************)
\* 441-449: tracing.stop settles
TraceStopSettles(t) ==
    /\ Alive /\ tasks[t].pc = "sa_trace"
    /\ tasks' = [tasks EXCEPT ![t] = Teardown(tasks[t], 2, browser, context, page, cdp)]
    /\ UNCHANGED <<isRunning, handleVars, timerVars, remoteVars, restartCount, exitCode>>
    /\ UNCHANGED <<sensorVars, snapshot>>

\* 451-459: cdp.detach settles
DetachSettles(t) ==
    /\ Alive /\ tasks[t].pc = "sa_detach"
    /\ attached' = attached \ {tasks[t].obj}
    /\ cdp' = Closed(cdp)
    /\ tasks' = [tasks EXCEPT ![t] = Teardown(tasks[t], 3, browser, context, page, cdp')]
    /\ UNCHANGED <<isRunning, browser, context, page, timerVars, browsers, pages, pushedGeo,
                   restartCount, exitCode>>
    /\ UNCHANGED <<sensorVars, snapshot>>

\* 461-469: page.close settles
PageCloseSettles(t) ==
    /\ Alive /\ tasks[t].pc = "sa_page"
    /\ pages' = pages \ {tasks[t].obj}
    /\ attached' = attached \ {tasks[t].obj}
    /\ page' = Closed(page)
    /\ tasks' = [tasks EXCEPT ![t] = Teardown(tasks[t], 4, browser, context, page', cdp)]
    /\ UNCHANGED <<isRunning, browser, context, cdp, timerVars, browsers, pushedGeo,
                   restartCount, exitCode>>
    /\ UNCHANGED <<sensorVars, snapshot>>

\* 471-479: context.close settles
ContextCloseSettles(t) ==
    /\ Alive /\ tasks[t].pc = "sa_ctx"
    /\ pages' = pages \ {tasks[t].obj}
    /\ attached' = attached \ {tasks[t].obj}
    /\ context' = Closed(context)
    /\ tasks' = [tasks EXCEPT ![t] = Teardown(tasks[t], 5, browser, context', page, cdp)]
    /\ UNCHANGED <<isRunning, browser, page, cdp, timerVars, browsers, pushedGeo,
                   restartCount, exitCode>>
    /\ UNCHANGED <<sensorVars, snapshot>>

\* 481-489: browser.close settles
BrowserCloseSettles(t) ==
    /\ Alive /\ tasks[t].pc = "sa_browser"
    /\ browsers' = browsers \ {tasks[t].obj}
    /\ pages' = pages \ {tasks[t].obj}
    /\ attached' = attached \ {tasks[t].obj}
    /\ browser' = Closed(browser)
    /\ tasks' = [tasks EXCEPT ![t] = Teardown(tasks[t], 6, browser', context, page, cdp)]
    /\ UNCHANGED <<isRunning, context, page, cdp, timerVars, pushedGeo, restartCount, exitCode>>
    /\ UNCHANGED <<sensorVars, snapshot>>

\* 489-495, 131-149: the stop request settles and stopAll returns: a signal handler
\* exits with 0; restart returns (397) or starts its 5 s wait (405)
ProfileStopSettles(t) ==
    /\ Alive /\ tasks[t].pc = "sa_profile" /\ tasks[t].kind \in Restarters \cup {"signal"}
    /\ LET rec == tasks[t] IN
       IF ~Silent(rec)
       THEN /\ exitCode' = 0
            /\ tasks' = [tasks EXCEPT ![t] = Finished(rec)]
       ELSE /\ exitCode' = exitCode
            /\ tasks' = [tasks EXCEPT ![t] =
                           IF rec.final THEN Finished(rec)
                           ELSE [rec EXCEPT !.pc = "delay", !.obj = NULL, !.issued = {}]]
    /\ UNCHANGED <<isRunning, handleVars, timerVars, remoteVars, restartCount>>
    /\ UNCHANGED <<sensorVars, snapshot>>

(***************************************************************************)
(* stopAll with a step that throws (index.ts 438-486, 134-148).  The call  *)
(* rejects, the remote object stays as it was, the catch swallows the      *)
(* error and stopAll goes on with the statement after the try: the handle  *)
(* is nulled (455, 465, 475, 485) and the next guard is read.              *)
(***************************************************************************)
\* 444-446, 452-454, 462-464, 472-474, 482-484: the stage stopAll is at after
\* the catch of stage n
AfterCatch_Rethrown(n) == 6
AfterCatch(n) == n + 1

\* the rejected step is remembered
Failed(rec) == [rec EXCEPT !.failed = rec.failed \cup {rec.pc}]

\* 441, 444-446: tracing.stop rejects
TraceStopFails(t) ==
    /\ Alive /\ tasks[t].pc = "sa_trace"
    /\ tasks' = [tasks EXCEPT ![t] =
                   Teardown(Failed(tasks[t]), AfterCatch(1), browser, context, page, cdp)]
    /\ UNCHANGED <<isRunning, handleVars, timerVars, remoteVars, restartCount, exitCode>>
    /\ UNCHANGED <<sensorVars, snapshot>>

\* 451-455: cdp.detach rejects
DetachFails(t) ==
    /\ Alive /\ tasks[t].pc = "sa_detach"
    /\ cdp' = Closed(cdp)
    /\ tasks' = [tasks EXCEPT ![t] =
                   Teardown(Failed(tasks[t]), AfterCatch(2), browser, context, page, cdp')]
    /\ UNCHANGED <<isRunning, browser, context, page, timerVars, remoteVars, restartCount,
                   exitCode>>
    /\ UNCHANGED <<sensorVars, snapshot>>

\* 461-465: page.close rejects
PageCloseFails(t) ==
    /\ Alive /\ tasks[t].pc = "sa_page"
    /\ page' = Closed(page)
    /\ tasks' = [tasks EXCEPT ![t] =
                   Teardown(Failed(tasks[t]), AfterCatch(3), browser, context, page', cdp)]
    /\ UNCHANGED <<isRunning, browser, context, cdp, timerVars, remoteVars, restartCount,
                   exitCode>>
    /\ UNCHANGED <<sensorVars, snapshot>>

\* 471-475: context.close rejects
ContextCloseFails(t) ==
    /\ Alive /\ tasks[t].pc = "sa_ctx"
    /\ context' = Closed(context)
    /\ tasks' = [tasks EXCEPT ![t] =
                   Teardown(Failed(tasks[t]), AfterCatch(4), browser, context', page, cdp)]
    /\ UNCHANGED <<isRunning, browser, page, cdp, timerVars, remoteVars, restartCount,
                   exitCode>>
    /\ UNCHANGED <<sensorVars, snapshot>>

\* 481-485: browser.close rejects
BrowserCloseFails(t) ==
    /\ Alive /\ tasks[t].pc = "sa_browser"
    /\ browser' = Closed(browser)
    /\ tasks' = [tasks EXCEPT ![t] =
                   Teardown(Failed(tasks[t]), AfterCatch(5), browser', context, page, cdp)]
    /\ UNCHANGED <<isRunning, context, page, cdp, timerVars, remoteVars, restartCount,
                   exitCode>>
    /\ UNCHANGED <<sensorVars, snapshot>>

\* 137, 146-148, 491-495: the stop request rejects; stopOctoProfile catches it and
\* stopAll returns as it does after a request that settled
ProfileStopFails(t) ==
    /\ Alive /\ tasks[t].pc = "sa_profile" /\ tasks[t].kind \in Restarters \cup {"signal"}
    /\ LET rec == Failed(tasks[t]) IN
       IF ~Silent(rec)
       THEN /\ exitCode' = 0
            /\ tasks' = [tasks EXCEPT ![t] = Finished(rec)]
       ELSE /\ exitCode' = exitCode
            /\ tasks' = [tasks EXCEPT ![t] =
                           IF rec.final THEN Finished(rec)
                           ELSE [rec EXCEPT !.pc = "delay", !.obj = NULL, !.issued = {}]]
    /\ UNCHANGED <<isRunning, handleVars, timerVars, remoteVars, restartCount>>
    /\ UNCHANGED <<sensorVars, snapshot>>

\* 405-406, 181-182: the 5 s wait is over, launch() is called
DelayElapses(t) ==
    /\ At(t, Restarters, "delay")
    /\ isRunning' = TRUE
    /\ tasks' = [tasks EXCEPT ![t] = LaunchEnter(tasks[t])]
    /\ UNCHANGED <<handleVars, timerVars, remoteVars, restartCount, exitCode>>
    /\ UNCHANGED <<sensorVars, snapshot>>

\* 411-412: the 5 s wait in the catch is over, restart() calls itself
RetryDelayElapses(t) ==
    /\ At(t, Restarters, "retryDelay")
    /\ RestartEnter(t, [RetryDone(tasks[t]) EXCEPT !.error = NoError])
    /\ UNCHANGED <<handleVars, remoteVars, exitCode>>
    /\ UNCHANGED <<sensorVars, snapshot>>

(***************************************************************************)
(* Health monitor (index.ts 326-357)                                       *)
(***************************************************************************)
\* 275, 330: !this.isRunning, the gate at the head of both timer callbacks
NotRunning_Never == FALSE
NotRunning == ~isRunning

\* 329-342: a health timer fires
HealthTick ==
    /\ Alive /\ healthTimers > 0 /\ HasFreeSlot
    /\ LET t == FreeSlot
           rec == [Idle EXCEPT !.kind = "health"] IN
       IF NotRunning
       THEN /\ tasks' = [tasks EXCEPT ![t] = Finished(rec)]
            /\ UNCHANGED <<isRunning, timerVars, restartCount>>
       ELSE IF page = NULL \/ page \notin pages
       THEN RestartEnter(t, rec)
       ELSE /\ tasks' = [tasks EXCEPT ![t] = [rec EXCEPT !.pc = "eval", !.obj = page]]
            /\ UNCHANGED <<isRunning, timerVars, restartCount>>
    /\ UNCHANGED <<handleVars, remoteVars, exitCode>>
    /\ UNCHANGED <<sensorVars, snapshot>>

\* 344: if (!isHealthy)
Unhealthy_Always(isHealthy) == TRUE
Unhealthy(isHealthy) == ~isHealthy

\* what the evaluation answered
Answered(rec, isHealthy) == [rec EXCEPT !.answer = IF isHealthy THEN "passed" ELSE "failed"]

\* 340-349: page.evaluate settles (a rejection counts as unhealthy, 342); only
\* an open page answers true
EvalSettles(t) ==
    /\ At(t, {"health"}, "eval")
    /\ \E isHealthy \in BOOLEAN :
         /\ isHealthy => tasks[t].obj \in pages
         /\ IF Unhealthy(isHealthy)
            THEN RestartEnter(t, Answered(tasks[t], isHealthy))
            ELSE /\ tasks' = [tasks EXCEPT ![t] = Finished(Answered(tasks[t], isHealthy))]
                 /\ UNCHANGED <<isRunning, timerVars, restartCount>>
    /\ UNCHANGED <<handleVars, remoteVars, exitCode>>
    /\ UNCHANGED <<sensorVars, snapshot>>

\* the page stops responding while the evaluation is pending: page.evaluate has
\* no timeout (340), so the promise stays pending for as long as the page is open
PageStalls(t) ==
    /\ At(t, {"health"}, "eval") /\ tasks[t].obj \in pages
    /\ tasks' = [tasks EXCEPT ![t] = [tasks[t] EXCEPT !.pc = "evalStalled"]]
    /\ UNCHANGED <<isRunning, handleVars, timerVars, remoteVars, restartCount, exitCode>>
    /\ UNCHANGED <<sensorVars, snapshot>>

\* 340-346: the page of a stalled evaluation closes; the evaluation rejects, the
\* catch at 342 turns that into false and restart() is called
StalledEvalRejects(t) ==
    /\ At(t, {"health"}, "evalStalled") /\ tasks[t].obj \notin pages
    /\ RestartEnter(t, Answered(tasks[t], FALSE))
    /\ UNCHANGED <<handleVars, remoteVars, exitCode>>
    /\ UNCHANGED <<sensorVars, snapshot>>

(***************************************************************************)
(* Process handlers (index.ts 154-175)                                     *)
(***************************************************************************)
\* 164-172: uncaughtException or unhandledRejection is delivered
UncaughtError ==
    /\ Alive /\ Registered /\ HasFreeSlot
    /\ RestartEnter(FreeSlot, [Idle EXCEPT !.kind = "hook"])
    /\ UNCHANGED <<handleVars, remoteVars, exitCode>>
    /\ UNCHANGED <<sensorVars, snapshot>>

\* 157-162: SIGINT, SIGTERM or SIGQUIT is delivered
Signal ==
    /\ Alive /\ Registered /\ HasFreeSlot
    /\ StopAllEnter(FreeSlot, [Idle EXCEPT !.kind = "signal"])
    /\ UNCHANGED <<handleVars, remoteVars, restartCount, exitCode>>
    /\ UNCHANGED <<sensorVars, snapshot>>

\* 157-162, 405: the signal is delivered while a restart() is in its 5 s wait
SignalInRestart ==
    /\ Alive /\ Registered
    /\ \E u \in Callbacks : Free(u)
    /\ \E t \in Callbacks : tasks[t].kind \in Restarters /\ tasks[t].pc = "delay"
    /\ \A t \in Callbacks : tasks[t].kind # "signal"
    /\ StopAllEnter(FreeSlot, [Idle EXCEPT !.kind = "signal"])
    /\ UNCHANGED <<handleVars, remoteVars, restartCount, exitCode>>
    /\ UNCHANGED <<sensorVars, snapshot>>

(***************************************************************************)
(* The remote side                                                         *)
(***************************************************************************)
\* the page the supervisor holds closes or crashes on its own (what 333 tests for)
PageCloses(s) ==
    /\ Alive /\ s \in pages /\ s = page
    /\ pages' = pages \ {s}
    /\ attached' = attached \ {s}
    /\ UNCHANGED <<isRunning, handleVars, timerVars, browsers, pushedGeo, restartCount,
                   exitCode, tasks>>
    /\ UNCHANGED <<sensorVars, snapshot>>



(***************************************************************************)
(* Sensor simulation (index.ts 257-321)                                    *)
(***************************************************************************)
\* 257-259: current + (Math.random() - 0.5) * noise * NOISE_MULTIPLIER, with
\* Math.random() = draw / RandomSteps
RandomWalk(current, noise, draw) ==
    current + ((2 * draw - RandomSteps) * noise * NOISE_MULTIPLIER) \div (2 * RandomSteps)

\* 264-266: Math.max(min, Math.min(max, val))
Clamp_NoUpper(val, min, max) == Max(min, val)
Clamp(val, min, max) == Max(min, Min(max, val))

\* 304: Math.random() < GEO_DRIFT_PROBABILITY
Drifts_Always(draw) == TRUE
Drifts(draw) == 100 * draw < GEO_DRIFT_PROBABILITY * RandomSteps

\* 305: (Math.random() - 0.5) * GEO_DRIFT_AMOUNT
GeoDrift(draw) == ((2 * draw - RandomSteps) * GEO_DRIFT_AMOUNT) \div (2 * RandomSteps)

\* 307: drift * LON_DRIFT_MULTIPLIER
LonDrift(drift) == (drift * LON_DRIFT_MULTIPLIER) \div 10

\* 274-297: a sensor timer fires; the orientation walks one step and is sent.
\* A callback that returns at the gate (275) never suspends, so it runs whatever
\* else is suspended.
SensorTick ==
    /\ Alive /\ sensorTimers > 0 /\ ticks < MaxTicks
    /\ \E u \in Callbacks : Free(u)
    /\ ~isRunning \/ cdp = NULL \/ HasFreeSlot
    /\ ticks' = ticks + 1
    /\ LET t == FreeSlot
           rec == [Idle EXCEPT !.kind = "sensor"] IN
       IF NotRunning \/ cdp = NULL
       THEN /\ tasks' = [tasks EXCEPT ![t] = Finished(rec)]
            /\ UNCHANGED currentOrientation
       ELSE \E a, b, g \in Draws :
              /\ currentOrientation' =
                   [alpha |-> Clamp(RandomWalk(currentOrientation.alpha, MovementNoise, a),
                                    AlphaRange[1], AlphaRange[2]),
                    beta |-> Clamp(RandomWalk(currentOrientation.beta, MovementNoise, b),
                                   BetaRange[1], BetaRange[2]),
                    gamma |-> Clamp(RandomWalk(currentOrientation.gamma, MovementNoise, g),
                                    GammaRange[1], GammaRange[2])]
              /\ tasks' = [tasks EXCEPT ![t] = [rec EXCEPT !.pc = "push", !.obj = cdp]]
    /\ UNCHANGED <<isRunning, handleVars, timerVars, remoteVars, restartCount, exitCode,
                   currentGeo, snapshot>>

\* 315-317: the catch of the tick logs the failure and the callback returns
Caught_Rethrown(rec) == Finished([Failed(rec) EXCEPT !.error = StepFailed])
Caught(rec) == Finished(Failed(rec))

\* 297-313: the orientation override settles; the drift draw is made and, when it
\* succeeds, the position moves and is sent.  A rejected send, or a null context
\* at 309, lands in the catch (315) and ends the tick.
OrientPushSettles(t) ==
    /\ At(t, {"sensor"}, "push")
    /\ LET rec == tasks[t] IN
       \/ /\ rec.obj \in attached
          /\ \E p \in Draws :
               LET drawn == [rec EXCEPT !.draw = p] IN
               IF Drifts(p)
               THEN \E d \in Draws :
                      /\ currentGeo' = [lat |-> currentGeo.lat + GeoDrift(d),
                                        lon |-> currentGeo.lon + LonDrift(GeoDrift(d))]
                      /\ tasks' = [tasks EXCEPT ![t] =
                             IF context = NULL
                             THEN Caught([drawn EXCEPT !.moved = TRUE, !.pc = "geoPush"])
                             ELSE [drawn EXCEPT !.moved = TRUE, !.pc = "geoPush",
                                                !.obj = context, !.sent = currentGeo']]
               ELSE /\ tasks' = [tasks EXCEPT ![t] = Finished(drawn)]
                    /\ UNCHANGED currentGeo
       \/ /\ tasks' = [tasks EXCEPT ![t] = Caught(rec)]
          /\ UNCHANGED currentGeo
    /\ UNCHANGED <<isRunning, handleVars, timerVars, remoteVars, restartCount, exitCode,
                   currentOrientation, ticks, snapshot>>

\* 309-313: setGeolocation settles
GeoPushSettles(t) ==
    /\ At(t, {"sensor"}, "geoPush")
    /\ \/ /\ tasks[t].obj \in browsers
          /\ pushedGeo' = tasks[t].sent
          /\ tasks' = [tasks EXCEPT ![t] = Finished(tasks[t])]
       \/ /\ UNCHANGED pushedGeo
          /\ tasks' = [tasks EXCEPT ![t] = Caught(tasks[t])]
    /\ UNCHANGED <<isRunning, handleVars, timerVars, browsers, pages, attached, restartCount,
                   exitCode, sensorVars, snapshot>>

(***************************************************************************)
(* Two calls of stopAll(true) in succession (index.ts 419-495).            *)
(***************************************************************************)
\* the fields stopAll works on, and the counter
Supervisor ==
    <<isRunning, sensorInterval, healthInterval, browser, context, page, cdp, restartCount>>

\* the first call is made
TwiceCalled ==
    /\ Alive /\ HasFreeSlot /\ ~snapshot.taken
    /\ \A t \in Callbacks : tasks[t].kind # "twice"
    /\ StopAllEnter(FreeSlot, [Idle EXCEPT !.kind = "twice", !.call = 1])
    /\ UNCHANGED <<handleVars, remoteVars, restartCount, exitCode, sensorVars, snapshot>>

\* 489-495: a call returns; the first is followed by the second
TwiceReturns(t) ==
    /\ Alive /\ tasks[t].pc = "sa_profile" /\ tasks[t].kind = "twice"
    /\ IF tasks[t].call = 1
       THEN /\ snapshot' = [taken |-> TRUE, fields |-> Supervisor, issued |-> tasks[t].issued]
            /\ StopAllEnter(t, [tasks[t] EXCEPT !.call = 2])
       ELSE /\ tasks' = [tasks EXCEPT ![t] = Finished(tasks[t])]
            /\ UNCHANGED <<isRunning, timerVars, snapshot>>
    /\ UNCHANGED <<handleVars, remoteVars, restartCount, exitCode, sensorVars>>

(***************************************************************************)
(* The program from construction.  The profile API answers every start     *)
(* request here; SpecRetry lets it fail.                                   *)
(***************************************************************************)
LaunchStep(t) ==
    \/ StartSettles(t) \/ ConnectSettles(t) \/ GeoSettles(t)
    \/ CdpSettles(t) \/ TraceSettles(t) \/ OrientSettles(t) \/ NavWakes(t)

StopAllStage(t) ==
    \/ TraceStopSettles(t) \/ DetachSettles(t) \/ PageCloseSettles(t)
    \/ ContextCloseSettles(t) \/ BrowserCloseSettles(t)

StopAllStep(t) == StopAllStage(t) \/ ProfileStopSettles(t)

RestartStep(t) == DelayElapses(t) \/ RetryDelayElapses(t)

RetryStep(t) == StartFails(t) \/ BackoffElapses(t)

Next ==
    \/ MainLaunch
    \/ \E t \in TaskIds : LaunchStep(t) \/ StopAllStep(t) \/ RestartStep(t) \/ EvalSettles(t)
    \/ HealthTick
    \/ UncaughtError
    \/ Signal
    \/ \E s \in SessionIds : PageCloses(s)

Spec == Init /\ [][Next]_vars

(***************************************************************************)
(* The start-up and the error hooks with a profile API that can fail.      *)
(***************************************************************************)
NextRetry ==
    \/ MainLaunch
    \/ \E t \in TaskIds : LaunchStep(t) \/ RetryStep(t) \/ StopAllStep(t) \/ RestartStep(t)
    \/ UncaughtError

SpecRetry == Init /\ [][NextRetry]_vars

(***************************************************************************)
(* The process from its entry: main() reads its configuration, constructs  *)
(* the supervisor and launches, with a profile API that can fail; signals  *)
(* and errors are followed through the teardown they start.                *)
(***************************************************************************)
NextStart ==
    \/ MainStarts
    \/ MainLaunch
    \/ \E t \in TaskIds : LaunchStep(t) \/ RetryStep(t) \/ StopAllStep(t)
    \/ UncaughtError
    \/ Signal

SpecStart == InitStart /\ [][NextStart]_vars

(***************************************************************************)
(* A session that main() launched: connected, emulated, both timers        *)
(* running, main() in the navigation loop.                                 *)
(***************************************************************************)
Established(orientation, callback) ==
    /\ isRunning = TRUE
    /\ browser = 1 /\ context = 1 /\ page = 1 /\ cdp = 1
    /\ sensorInterval = 1 /\ healthInterval = 1
    /\ restartCount = 0
    /\ sensorTimers = 1 /\ healthTimers = 1
    /\ browsers = {1} /\ pages = {1} /\ attached = {1}
    /\ pushedGeo = ConfigGeo
    /\ exitCode = NoExit
    /\ tasks = [t \in TaskIds |->
                  IF t = MainTask THEN Parked([Idle EXCEPT !.kind = "main"])
                  ELSE IF t = 1 THEN callback
                  ELSE Idle]
    /\ currentOrientation = orientation
    /\ currentGeo = ConfigGeo
    /\ ticks = 0
    /\ snapshot = NoSnapshot

(***************************************************************************)
(* One health check on a launched session while the profile API is down:   *)
(* every launch() fails in startOctoProfile.  It starts where the health   *)
(* timer has fired and page.evaluate is pending (HealthTick, 329-340).     *)
(* Timers fire and promises settle, so a step that stays possible is       *)
(* taken.                                                                  *)
(***************************************************************************)
InitDown ==
    Established(StartOrientation, [Idle EXCEPT !.kind = "health", !.pc = "eval", !.obj = 1])

ChainStep(t) == StopAllStep(t) \/ RestartStep(t) \/ RetryStep(t)

NextDown == \E t \in TaskIds : EvalSettles(t) \/ ChainStep(t) \/ NavWakes(t)

SpecDown ==
    /\ InitDown
    /\ [][NextDown]_vars
    /\ WF_vars(\E t \in Callbacks : EvalSettles(t) \/ ChainStep(t))

(***************************************************************************)
(* The sensor timer on a launched session, from the constructor's          *)
(* orientation and from orientations at the ends of the ranges.            *)
(***************************************************************************)
OrientationSamples ==
    { StartOrientation,
      [alpha |-> AlphaRange[1], beta |-> BetaRange[1], gamma |-> GammaRange[1]],
      [alpha |-> AlphaRange[2], beta |-> BetaRange[2], gamma |-> GammaRange[2]] }

InitSensor == \E o \in OrientationSamples : Established(o, Idle)

NextSensor ==
    \/ SensorTick
    \/ \E t \in Callbacks : OrientPushSettles(t) \/ GeoPushSettles(t)
    \/ \E s \in SessionIds : PageCloses(s)

SpecSensor == InitSensor /\ [][NextSensor]_vars

(***************************************************************************)
(* stopAll(true) called twice in succession, at every point main()'s       *)
(* launch can have reached, with the page open or already closed.          *)
(***************************************************************************)
LaunchPoints == {"init", "start", "connect", "geo", "cdp", "trace", "orient", "nav"}

\* main() suspended at pc, as MainLaunch .. OrientSettles leave it
MainAt(pc) ==
    LET rec == [Idle EXCEPT !.kind = "main"] IN
    CASE pc = "init" -> [rec EXCEPT !.pc = "init"]
      [] pc \in {"start", "connect"} -> [LaunchEnter(rec) EXCEPT !.pc = pc]
      [] pc = "nav" -> Parked(rec)
      [] OTHER -> [rec EXCEPT !.pc = pc, !.obj = 1]

LaunchPoint(pc, open) ==
    LET connected == pc \in {"geo", "cdp", "trace", "orient", "nav"}
        channel == pc \in {"trace", "orient", "nav"}
        timed == pc = "nav"
        set(on) == IF on THEN 1 ELSE NULL
    IN
    /\ isRunning = (pc # "init")
    /\ browser = set(connected) /\ context = set(connected) /\ page = set(connected)
    /\ cdp = set(channel)
    /\ sensorInterval = set(timed) /\ healthInterval = set(timed)
    /\ sensorTimers = set(timed) /\ healthTimers = set(timed)
    /\ restartCount = 0
    /\ browsers = IF connected THEN {1} ELSE {}
    /\ pages = IF connected /\ open THEN {1} ELSE {}
    /\ attached = IF channel /\ open THEN {1} ELSE {}
    /\ pushedGeo = IF pc \in {"cdp", "trace", "orient", "nav"} THEN ConfigGeo ELSE NoGeo
    /\ exitCode = NoExit
    /\ tasks = [t \in TaskIds |-> IF t = MainTask THEN MainAt(pc) ELSE Idle]
    /\ currentOrientation = StartOrientation
    /\ currentGeo = ConfigGeo
    /\ ticks = 0
    /\ snapshot = NoSnapshot

InitTwice == \E pc \in LaunchPoints, open \in BOOLEAN : LaunchPoint(pc, open)

NextTwice ==
    \/ TwiceCalled
    \/ \E t \in Callbacks : StopAllStage(t) \/ TwiceReturns(t)
    \/ NavWakes(MainTask)
    \/ \E s \in SessionIds : PageCloses(s)

SpecTwice == InitTwice /\ [][NextTwice]_vars

(***************************************************************************)
(* One teardown whose steps can each fail: stopAll() from a signal or      *)
(* stopAll(true) from an error hook's restart(), called at every point     *)
(* main()'s launch can have reached, followed up to its return.            *)
(***************************************************************************)
StopAllFailure(t) ==
    \/ TraceStopFails(t) \/ DetachFails(t) \/ PageCloseFails(t)
    \/ ContextCloseFails(t) \/ BrowserCloseFails(t) \/ ProfileStopFails(t)

NextTeardown ==
    \/ Signal
    \/ UncaughtError
    \/ \E t \in Callbacks : StopAllStep(t) \/ StopAllFailure(t)
    \/ NavWakes(MainTask)
    \/ \E s \in SessionIds : PageCloses(s)

SpecTeardown == InitTwice /\ [][NextTeardown]_vars

(***************************************************************************)
(* The sensor timer and an error hook's restart() on a launched session:   *)
(* ticks drift the sensor state, then the session is torn down and         *)
(* launched again.                                                         *)
(***************************************************************************)
InitDrift == Established(StartOrientation, Idle)

\* the first callback of the sensor timer
FirstSensorTick == ticks = 0 /\ SensorTick

NextDrift ==
    \/ FirstSensorTick
    \/ \E t \in Callbacks : OrientPushSettles(t) \/ GeoPushSettles(t)
    \/ UncaughtError
    \/ \E t \in TaskIds : StopAllStep(t) \/ RestartStep(t) \/ LaunchStep(t)

SpecDrift == InitDrift /\ [][NextDrift]_vars

(***************************************************************************)
(* One health check on a launched session, from the moment page.evaluate   *)
(* is pending, and the restart it can lead to.  A pending call of stopAll, *)
(* restart or launch settles: each is a timer or carries a timeout.  The   *)
(* evaluation settles too unless the page stops responding: it is called   *)
(* without a timeout (340).  The navigation loop wakes from its sleep;     *)
(* whether it then finds the running flag cleared depends on when.         *)
(***************************************************************************)
InitWatch ==
    Established(StartOrientation, [Idle EXCEPT !.kind = "health", !.pc = "eval", !.obj = 1])

NextWatch ==
    \/ \E t \in TaskIds :
          \/ EvalSettles(t) \/ PageStalls(t) \/ StalledEvalRejects(t)
          \/ StopAllStep(t) \/ RestartStep(t) \/ LaunchStep(t)
    \/ \E s \in SessionIds : PageCloses(s)

SpecWatch ==
    /\ InitWatch
    /\ [][NextWatch]_vars
    /\ \A t \in TaskIds : WF_vars(EvalSettles(t) \/ StalledEvalRejects(t))
    /\ \A t \in TaskIds : WF_vars(StopAllStep(t) \/ RestartStep(t))
    /\ \A t \in TaskIds : WF_vars(LaunchStep(t))

(***************************************************************************)
(* Both timers around a teardown that overlaps main()'s launch: it starts  *)
(* where main() is suspended at the initial orientation override (245), so *)
(* a signal or an error hook can run stopAll before launch() creates the   *)
(* timers.                                                                 *)
(***************************************************************************)
InitGate == LaunchPoint("orient", TRUE)

NextGate ==
    \/ Signal
    \/ UncaughtError
    \/ FirstSensorTick
    \/ HealthTick
    \/ \E t \in Callbacks : OrientPushSettles(t) \/ GeoPushSettles(t) \/ EvalSettles(t)
    \/ \E t \in TaskIds : StopAllStep(t) \/ DelayElapses(t) \/ LaunchStep(t)

SpecGate == InitGate /\ [][NextGate]_vars

(***************************************************************************)
(* A termination signal that arrives while an error hook's restart() is in *)
(* its 5 s wait, on a session main() launched.                             *)
(***************************************************************************)
NextSignal ==
    \/ UncaughtError
    \/ SignalInRestart
    \/ \E t \in TaskIds : StopAllStep(t) \/ DelayElapses(t) \/ LaunchStep(t)

SpecSignal == InitDrift /\ [][NextSignal]_vars

(***************************************************************************)
(* Properties                                                              *)
(***************************************************************************)
StopAllPcs == {"sa_trace", "sa_detach", "sa_page", "sa_ctx", "sa_browser", "sa_profile"}
LaunchPcs == {"start", "backoff", "connect", "geo", "cdp", "trace", "orient"}

\* this step is a call of restart() by chain t: it enters stopAll from outside
RestartCalled(t) ==
    /\ tasks'[t].kind \in Restarters
    /\ tasks'[t].pc \in StopAllPcs
    /\ tasks[t].pc \notin StopAllPcs

\* this step is a call of stopAll by chain t
StopAllCalled(t) ==
    /\ tasks'[t].pc \in StopAllPcs
    /\ tasks[t].pc \notin StopAllPcs

\* this step is a call of launch() by chain t
LaunchCalled(t) ==
    /\ tasks'[t].pc = "start"
    /\ tasks[t].pc \notin {"start", "backoff"}

\* C1: in every reachable state restartCount is between 0 and 7; a call of
\* restart() made when restartCount is 7 leaves the counter alone and takes the
\* teardown-only branch, and a chain on that branch is only ever inside stopAll
\* and ends there, so it never calls launch().
C1_RestartBudget ==
    /\ [](restartCount \in 0..7)
    /\ [][\A t \in Callbacks :
            RestartCalled(t) /\ restartCount = 7 => restartCount' = 7 /\ tasks'[t].final]_vars
    /\ [](\A t \in Callbacks : tasks[t].final => tasks[t].pc \in StopAllPcs)
    /\ [][\A t \in Callbacks :
            tasks[t].final => tasks'[t].final \/ tasks'[t].pc \notin LaunchPcs \cup {"delay"}]_vars

\* restart() was called with the budget used up and its teardown is under way
C1_Exhausted ==
    \E t \in Callbacks :
        tasks[t].kind \in Restarters /\ tasks[t].final /\ tasks[t].pc = "sa_profile"
        /\ restartCount = 7

\* restart() has been called
InRestart == \E t \in Callbacks : tasks[t].kind \in Restarters /\ tasks[t].pc \in StopAllPcs

\* C2: from restartCount = 0, after a failed health check called restart() and
\* with every launch() failing: every call of restart() counts one more attempt
\* (1..7) and tears down, until the call at 7 takes the exhausted branch; launch()
\* is called only from the 5 s wait that follows a counted teardown, so once per
\* attempt; a launch is made in each of the attempts 1..7 and in no other; and
\* the chain eventually returns with the counter at 7 and the session torn down.
C2_GivesUpAfterSeven ==
    /\ [][\A t \in Callbacks : RestartCalled(t) =>
            IF restartCount < 7
            THEN restartCount' = restartCount + 1 /\ ~tasks'[t].final
            ELSE restartCount' = restartCount /\ tasks'[t].final]_vars
    /\ [][restartCount' # restartCount => \E t \in Callbacks : RestartCalled(t)]_vars
    /\ [][\A t \in Callbacks : LaunchCalled(t) =>
            tasks[t].pc = "delay" /\ restartCount' = restartCount]_vars
    /\ [][\A t \in Callbacks : tasks'[t].pc = "delay" /\ tasks[t].pc # "delay" =>
            tasks[t].pc = "sa_profile" /\ ~tasks[t].final]_vars
    /\ [](\A t \in Callbacks : tasks[t].pc \in LaunchPcs \cup {"delay", "retryDelay"} =>
            restartCount \in 1..7 /\ ~tasks[t].final)
    /\ \A k \in 1..7 :
         (InRestart /\ restartCount <= k /\ \A t \in Callbacks : ~tasks[t].final)
           ~> (\E t \in Callbacks : tasks[t].pc = "start" /\ restartCount = k)
    /\ InRestart ~> (/\ restartCount = 7 /\ ~isRunning
                     /\ \A t \in Callbacks : tasks[t] = Idle)

\* the chain has returned after its seventh attempt
C2_GaveUp ==
    /\ restartCount = 7
    /\ \A t \in Callbacks : tasks[t] = Idle
    /\ healthTimers = 0 /\ sensorTimers = 0 /\ browsers = {}

\* C3: once the relaunch made by restart() has succeeded (session connected,
\* timers started, restart()'s launch() in the navigation loop) and while that
\* session is still running, restartCount is 0 again.
C3_ResetWhileRunning ==
    \A t \in Callbacks :
        (/\ tasks[t].kind \in Restarters /\ tasks[t].pc = "nav"
         /\ isRunning /\ page \in pages /\ healthInterval # NULL
         /\ \A u \in Callbacks : ~Active(u))
        => restartCount = 0

\* C4: at most one browser connection is open at any time.
C4_OneLiveSession == Cardinality(browsers) <= 1

\* C5: every orientation axis lies within its configured range in every state,
\* before and after every sensor tick: alpha in [0, 360], beta in [-60, 60],
\* gamma in [-45, 45] degrees.
C5_OrientationInRange ==
    /\ currentOrientation.alpha \in 0..36000
    /\ currentOrientation.beta \in -6000..6000
    /\ currentOrientation.gamma \in -4500..4500

\* a tick has walked each axis against the lower end of its range
C5_ClampedLow ==
    /\ ticks > 0
    /\ currentOrientation = [alpha |-> 0, beta |-> -6000, gamma |-> -4500]
    /\ \E t \in Callbacks : tasks[t].kind = "sensor" /\ tasks[t].pc = "push"

\* C6 (as amended): a tick moves currentGeo exactly when it made the drift draw
\* and the draw came out below 0.22; only such a tick calls setGeolocation;
\* and no step other than such a tick changes currentGeo or the pushed position.
C6_DriftOnlyOnDraw ==
    /\ [](\A t \in Callbacks : tasks[t].kind = "sensor" =>
            /\ tasks[t].moved <=>
                 (tasks[t].draw >= 0 /\ 100 * tasks[t].draw < 22 * RandomSteps)
            /\ tasks[t].pc = "geoPush" => tasks[t].moved)
    /\ [][(currentGeo' # currentGeo \/ pushedGeo' # pushedGeo) =>
            \E t \in Callbacks :
                /\ tasks[t].kind = "sensor" /\ tasks[t].pc \in {"push", "geoPush"}
                /\ tasks'[t].moved]_vars

\* a tick drew below 0.22, moved the position and pushed it
C6_Drifted ==
    \E t \in Callbacks :
        /\ tasks[t].kind = "sensor" /\ tasks[t].pc = "done" /\ tasks[t].moved
        /\ currentGeo # ConfigGeo /\ pushedGeo = currentGeo

\* C6 as stated: with the draw never failing, every tick updates geolocation.
C6_EveryTickDrifts ==
    \A t \in Callbacks :
        (/\ tasks[t].kind = "sensor" /\ tasks[t].pc = "done"
         /\ ~(tasks[t].draw >= 0 /\ 100 * tasks[t].draw >= 22 * RandomSteps))
        => tasks[t].moved

C8_RetryCounts ==
    \A t \in TaskIds :
        LET r == tasks[t] IN
        /\ r.calls <= 6
        /\ r.pc = "start" => r.calls = r.attempt /\ r.warns = r.calls - 1 /\ r.waits = r.calls - 1
        /\ r.pc = "backoff" => r.calls = r.attempt /\ r.calls <= 5 /\ r.warns = r.calls /\ r.waits = r.calls
        /\ r.pc = "connect" => r.calls \in 1..6 /\ r.warns = r.calls - 1 /\ r.waits = r.calls - 1
        /\ r.error.kind = "FailedAfterAttempts" =>
             r.calls = 6 /\ r.warns = 6 /\ r.waits = 5 /\ r.error.cause = r.lastError
        /\ r.pc = "retryDelay" /\ r.calls > 0 => r.error.kind = "FailedAfterAttempts"

\* the start request succeeded on its sixth attempt
C8_SucceededOnSixth ==
    \E t \in TaskIds : tasks[t].pc = "connect" /\ tasks[t].calls = 6 /\ tasks[t].warns = 5

\* C9: the k-th backoff wait is min(1200 * 2^(k-1), 30000) ms; the waits never
\* decrease and none exceeds 30000 ms.
C9_BackoffDelays ==
    \A t \in TaskIds :
        LET d == tasks[t].delays IN
        /\ Len(d) = tasks[t].waits
        /\ \A k \in 1..Len(d) :
             /\ d[k] = (IF 1200 * 2^(k - 1) < 30000 THEN 1200 * 2^(k - 1) ELSE 30000)
             /\ d[k] <= 30000
             /\ k < Len(d) => d[k] <= d[k + 1]

\* five backoff waits have been made
C9_FiveWaits ==
    \E t \in TaskIds : tasks[t].delays = <<1200, 2400, 4800, 9600, 19200>>

\* C10: once restart() has taken the budget-exhausted branch and its teardown
\* has returned, the process has exited with code 1.
C10_ExitsWithOne ==
    (/\ restartCount >= 7 /\ ~isRunning
     /\ \A t \in Callbacks : ~Active(t))
    => exitCode = 1

\* C11: once SIGINT, SIGTERM or SIGQUIT has been received, in whatever state, the
\* process does not end any other way than by the exit with code 0 that follows
\* the signal handler's teardown: while that handler is in stopAll the process has
\* not exited with code 1.
C11_SignalExitsZero ==
    (\E t \in Callbacks : tasks[t].kind = "signal" /\ tasks[t].pc \in StopAllPcs)
    => exitCode # 1

\* C12: an uncaughtException or unhandledRejection raised with restartCount
\* below 7 does not end the process: while the restart() it invoked is tearing
\* down, waiting or relaunching, the process has not exited with code 1.
C12_HookKeepsProcessAlive ==
    (\E t \in Callbacks :
        /\ tasks[t].kind = "hook" /\ ~tasks[t].final
        /\ tasks[t].pc \in StopAllPcs \cup LaunchPcs \cup {"delay"})
    => exitCode # 1

\* C13: a failure of the launch() that main() started, with restartCount below 7,
\* does not end the process.
C13_LaunchFailureRestarts ==
    (tasks[MainTask].error # NoError /\ restartCount < 7) => exitCode = NoExit

\* C14: stopAll clears the running flag and both timers before it releases
\* anything, so from the moment a teardown has begun releasing resources until
\* the next launch() begins no sensor or health timer is scheduled and no tick
\* callback can start.
C14_NoTimerDuringTeardown ==
    (~isRunning /\ \E t \in Callbacks : tasks[t].pc \in StopAllPcs)
    => sensorTimers = 0 /\ healthTimers = 0

\* C15: whichever steps of a teardown fail, stopAll goes on: only steps it
\* issued can have failed; it raises no error; when it issues the profile-stop
\* request every earlier step has had its turn, so no control channel, context
\* or browser handle is left and the page handle is left only for a page that is
\* already closed; and it always gets to the profile-stop request and from there
\* returns to restart(), which goes on to its 5 s wait, or exits with code 0.
C15_TeardownCompletes ==
    /\ [](\A t \in Callbacks :
            LET r == tasks[t] IN
            /\ r.error = NoError
            /\ r.pc \in StopAllPcs => r.failed \subseteq r.issued
            /\ r.pc = "sa_profile" =>
                 /\ "sa_profile" \in r.issued
                 /\ cdp = NULL /\ context = NULL /\ browser = NULL
                 /\ page = NULL \/ page \notin pages)
    /\ [][\A t \in Callbacks :
            (tasks[t].pc \in StopAllPcs /\ tasks'[t].pc \notin StopAllPcs) =>
                /\ tasks[t].pc = "sa_profile"
                /\ \/ tasks[t].kind = "hook" /\ tasks'[t].pc = "delay" /\ exitCode' = NoExit
                   \/ tasks[t].kind = "signal" /\ exitCode' = 0]_vars

\* every step of a teardown on a live session failed and stopAll returned to restart()
C15_AllStepsFailed ==
    \E t \in Callbacks :
        /\ tasks[t].kind = "hook" /\ tasks[t].pc = "delay"
        /\ tasks[t].failed = StopAllPcs

\* C16: when the launch() made by restart() pushes the new session's initial
\* orientation override, currentOrientation and currentGeo have their
\* construction-time values, whatever the ticks of the previous session did.
C16_SensorStateReset ==
    \A t \in Callbacks :
        (tasks[t].kind \in Restarters /\ tasks[t].pc = "orient")
        => currentOrientation = StartOrientation /\ currentGeo = ConfigGeo

\* C17: a health tick that finds the supervisor running and goes on to the
\* in-page evaluation does not stay there: the callback eventually gets past
\* page.evaluate, to restart() when the evaluation failed or the page did not
\* respond.
C17_UnhealthyTickRestarts ==
    \A t \in Callbacks :
        (tasks[t].kind = "health" /\ tasks[t].pc \in {"eval", "evalStalled"})
          ~> ~(tasks[t].kind = "health" /\ tasks[t].pc \in {"eval", "evalStalled"})

\* C18: when the profile identifier is not set (or empty) at startup, the process
\* exits with status 1 and nothing else has happened or happens: no supervisor
\* is constructed (its sensor state is never initialised), no start request is
\* sent and none retried, launch() is not called, no session or timer exists, and
\* no signal or error handler ever runs; before the constructor has run no
\* handler runs either.
C18_NoUuidExits ==
    /\ [](tasks[MainTask].uuid \in {"undefined", ""} =>
            /\ exitCode = 1
            /\ tasks[MainTask].pc = "done"
            /\ tasks[MainTask].calls = 0 /\ tasks[MainTask].waits = 0
            /\ ~isRunning
            /\ currentOrientation = NoOrientation /\ currentGeo = NoGeo
            /\ browsers = {} /\ sensorTimers = 0 /\ healthTimers = 0
            /\ \A t \in Callbacks : tasks[t] = Idle)
    /\ [](tasks[MainTask].pc = "entry" => \A t \in Callbacks : tasks[t] = Idle)
    /\ [][tasks[MainTask].pc = "entry" =>
            \/ tasks'[MainTask].pc = "init" /\ tasks'[MainTask].uuid = "profile-uuid"
                  /\ exitCode' = NoExit
            \/ tasks'[MainTask].pc = "done" /\ exitCode' = 1]_vars

\* main() found no profile identifier and exited
C18_ExitedOnMissingUuid ==
    /\ tasks[MainTask].uuid = "undefined"
    /\ tasks[MainTask].pc = "done"
    /\ exitCode = 1

\* C19: once a teardown has cleared the running flag, a navigation loop that
\* was running eventually exits.
C19_LoopExitsOnceCleared ==
    \A t \in TaskIds :
        (tasks[t].pc = "nav" /\ ~isRunning) ~> (tasks[t].pc # "nav")

\* C20: at most one health-tick callback is in progress (started and not yet
\* returned) in any reachable state, one suspended in page.evaluate or in the
\* restart() it called included.
C20_OneHealthCallback ==
    Cardinality({t \in Callbacks : tasks[t].kind = "health" /\ ~Free(t)}) <= 1

\* C21: a sensor tick whose orientation or geolocation push fails ends there:
\* the step that fails returns the callback without an error, leaves
\* restartCount, the running flag, both timer handles and the scheduled timers
\* as they were, and a sensor callback is never inside restart(), stopAll or
\* launch().
C21_TickFailureSwallowed ==
    /\ [](\A t \in Callbacks : tasks[t].kind = "sensor" =>
            /\ tasks[t].pc \in {"push", "geoPush", "done"}
            /\ tasks[t].error = NoError
            /\ tasks[t].failed # {} => tasks[t].pc = "done")
    /\ [][\A t \in Callbacks :
            (tasks'[t].kind = "sensor" /\ tasks'[t].failed # {} /\ tasks[t].failed = {}) =>
                /\ tasks[t].pc \in {"push", "geoPush"}
                /\ restartCount' = restartCount /\ isRunning' = isRunning
                /\ sensorInterval' = sensorInterval /\ healthInterval' = healthInterval
                /\ sensorTimers' = sensorTimers /\ healthTimers' = healthTimers
                /\ sensorTimers' > 0]_vars

\* the page closed under a tick, its orientation push was rejected on the
\* detached channel and the tick returned
C21_PushFailedDetached ==
    \E t \in Callbacks :
        /\ tasks[t].kind = "sensor" /\ tasks[t].pc = "done"
        /\ tasks[t].failed = {"push"}
        /\ cdp \notin attached
        /\ sensorTimers = 1 /\ isRunning

\* C22: the running flag changes only where launch() begins (to true) and where
\* stopAll begins (to false), and each of the two sets it; a sensor callback
\* that begins while the flag is false returns at once and changes nothing, and
\* no sensor or health callback gets as far as a push, an evaluation or
\* restart() unless the flag was true when it began.
C22_FlagGatesTicks ==
    /\ [][isRunning' # isRunning =>
            IF isRunning' THEN \E t \in TaskIds : LaunchCalled(t)
            ELSE \E t \in TaskIds : StopAllCalled(t)]_vars
    /\ [][\A t \in TaskIds :
            /\ LaunchCalled(t) => isRunning'
            /\ StopAllCalled(t) => ~isRunning']_vars
    /\ [][(ticks' # ticks /\ ~isRunning) =>
            /\ \E t \in Callbacks :
                 tasks' = [tasks EXCEPT ![t] = [Idle EXCEPT !.kind = "sensor", !.pc = "done"]]
            /\ UNCHANGED <<isRunning, handleVars, timerVars, remoteVars, restartCount,
                           exitCode, currentOrientation, currentGeo, snapshot>>]_vars
    /\ [][\A t \in Callbacks :
            (tasks'[t].kind \in {"sensor", "health"} /\ tasks[t].kind # tasks'[t].kind
             /\ tasks'[t].pc # "done") => isRunning]_vars

\* a signal's stopAll cleared the flag while main()'s launch was at the initial
\* orientation override; launch() then started the timers, and a sensor
\* callback began with the flag false and returned at the gate
C22_TickGated ==
    /\ ~isRunning /\ restartCount = 0 /\ sensorTimers = 1 /\ cdp # NULL
    /\ \E t \in Callbacks : tasks[t].kind = "signal" /\ tasks[t].pc = "sa_trace"
    /\ \E t \in Callbacks :
         /\ tasks[t].kind = "sensor" /\ tasks[t].pc = "done"
         /\ tasks[t].draw = -1 /\ tasks[t].failed = {}
    /\ ticks = 1 /\ currentOrientation = StartOrientation

\* the awaits of launch() in the order of its statements: the start request and
\* its retries (182), connectOverCDP (185), permissions and geolocation
\* (190-195), viewport, header and control channel (198-204), emulation and
\* tracing.start (207-224), the initial orientation override (229), and then the
\* timers and the navigation loop (230-234)
NextAwait(pc) ==
    CASE pc = "start" -> {"connect", "backoff"}
      [] pc = "backoff" -> {"start"}
      [] pc = "connect" -> {"geo"}
      [] pc = "geo" -> {"cdp"}
      [] pc = "cdp" -> {"trace"}
      [] pc = "trace" -> {"orient"}
      [] pc = "orient" -> {"nav", "done", "idle"}
      [] OTHER -> {}

\* C23: every launch() takes its steps in order: profile start, connect,
\* emulation setup, tracing start, initial orientation override, then both
\* timers and the navigation loop in one go; a step moves a launch either to
\* the next step without an error or out of launch() with an error, and a
\* launch that fails starts no timer and does not enter the loop; timers are
\* created only by a launch whose orientation override has succeeded, both at
\* once, and the loop is entered only there.
C23_LaunchOrder ==
    /\ [][\A t \in TaskIds :
            (tasks[t].pc \in LaunchPcs /\ tasks'[t] # tasks[t]) =>
                \/ /\ tasks'[t].pc \in NextAwait(tasks[t].pc)
                   /\ tasks'[t].error = NoError
                   /\ tasks[t].pc # "orient" => UNCHANGED timerVars
                \/ /\ tasks'[t].error # NoError
                   /\ tasks'[t].pc = IF t = MainTask THEN "done" ELSE "retryDelay"
                   /\ UNCHANGED timerVars]_vars
    /\ [][(sensorTimers' > sensorTimers \/ healthTimers' > healthTimers) =>
            /\ sensorTimers' = sensorTimers + 1 /\ healthTimers' = healthTimers + 1
            /\ sensorInterval' # NULL /\ healthInterval' # NULL
            /\ \E t \in TaskIds :
                 /\ tasks[t].pc = "orient" /\ tasks'[t].pc \notin LaunchPcs
                 /\ tasks'[t].error = NoError]_vars
    /\ [][\A t \in TaskIds :
            (tasks'[t].pc = "nav" /\ tasks[t].pc # "nav") =>
                /\ tasks[t].pc = "orient"
                /\ sensorTimers' = sensorTimers + 1 /\ healthTimers' = healthTimers + 1]_vars

\* main()'s launch connected and then failed at a later step, before the timers
C23_FailedBeforeTimers ==
    /\ tasks[MainTask].pc = "done" /\ tasks[MainTask].error = StepFailed
    /\ browsers # {} /\ cdp # NULL
    /\ sensorTimers = 0 /\ healthTimers = 0 /\ sensorInterval = NULL /\ healthInterval = NULL

\* C24: a health tick whose evaluation passes on an open page returns and
\* leaves everything as it was: restartCount, the running flag, both timer
\* handles and timers, the session handles, the session itself and the sensor
\* state; no callback whose evaluation passed is ever inside restart() or
\* stopAll.
C24_PassingTickNoOp ==
    /\ [][\A t \in Callbacks :
            (tasks[t].kind = "health" /\ tasks[t].pc = "eval" /\ tasks'[t] = Idle) =>
                /\ tasks[t].obj \in pages
                /\ UNCHANGED <<isRunning, handleVars, timerVars, remoteVars, restartCount,
                               exitCode, sensorVars>>]_vars
    /\ [](\A t \in Callbacks : tasks[t].answer # "passed")

\* the pending evaluation passed and the callback returned: the session main()
\* launched is as it was
C24_Passed ==
    /\ \A t \in Callbacks : tasks[t] = Idle
    /\ tasks[MainTask].pc = "nav"
    /\ isRunning /\ restartCount = 0 /\ page \in pages /\ cdp \in attached
    /\ sensorTimers = 1 /\ healthTimers = 1

\* C25: at most one call chain is inside the navigation loop at any time: the
\* loop of a torn-down session has exited by the time the relaunched session's
\* loop is entered and issues its first navigation.
C25_OneNavigationLoop ==
    Cardinality({t \in TaskIds : tasks[t].pc = "nav"}) <= 1

\* C26: at most one sensor timer and at most one health timer are scheduled,
\* and a scheduled timer is the one its handle refers to: the number of
\* scheduled timers of a kind is 1 when the handle is set and 0 when it is null.
C26_TimersReferenced ==
    /\ sensorTimers = (IF sensorInterval # NULL THEN 1 ELSE 0)
    /\ healthTimers = (IF healthInterval # NULL THEN 1 ELSE 0)

\* C27: restartCount is not set back to 0 while a restart() is in progress or
\* after the budget-exhausted branch has been taken: every call of restart()
\* either counts itself or finds the counter at 7, so while one is tearing
\* down, waiting or relaunching the counter is above 0.
C27_NoResetUnderRestart ==
    (\E t \in Callbacks :
        /\ tasks[t].kind \in Restarters
        /\ tasks[t].pc \in StopAllPcs \cup LaunchPcs \cup {"delay", "retryDelay"})
    => restartCount > 0

\* C28: once a termination signal has been received no launch() begins and no
\* start request is sent before the process exits: while the signal handler
\* is in its teardown (the signal having arrived when no launch was in
\* progress), no call chain is at the start request.
C28_NoLaunchAfterSignal ==
    (\E t \in Callbacks : tasks[t].kind = "signal" /\ tasks[t].pc \in StopAllPcs)
    => \A t \in TaskIds : tasks[t].pc # "start"

\* C29: when stopAll has returned to restart() and no launch() is running (the
\* one main() made has returned), the supervisor holds no reference: browser,
\* context, page and cdp are null, both timer handles are null and the running
\* flag is false.
C29_NoReferenceLeft ==
    (/\ \E t \in Callbacks : tasks[t].kind = "hook" /\ tasks[t].pc = "delay"
     /\ \A t \in TaskIds : tasks[t].pc \notin LaunchPcs \cup {"nav", "init"})
    => /\ browser = NULL /\ context = NULL /\ page = NULL /\ cdp = NULL
       /\ sensorInterval = NULL /\ healthInterval = NULL
       /\ ~isRunning

\* C30: when the process has exited after main()'s start request succeeded
\* (its launch failed at a later step), a stop request has been issued: a
\* stopAll has got to stopOctoProfile, or has returned to restart().
C30_ExitStopsProfile ==
    (exitCode # NoExit /\ tasks[MainTask].error.kind = "StepFailed")
    => \E t \in Callbacks : "sa_profile" \in tasks[t].issued \/ tasks[t].pc = "delay"

\* C31: right after a launch() has set the session's initial geolocation, with
\* no sensor tick in flight, currentGeo is the geolocation that was pushed, on
\* the first launch and on every relaunch.
C31_GeoMatchesPushed ==
    \A t \in TaskIds :
        (/\ tasks[t].kind \in Launchers /\ tasks[t].pc = "cdp"
         /\ isRunning /\ context \in browsers
         /\ \A u \in Callbacks : tasks[u].pc \notin {"push", "geoPush"})
        => currentGeo = pushedGeo

============================================================================
